---- MODULE Spec2Model ----
(***************************************************************************)
(* Forest-fire percolation on a square lattice (src/src/main.rs).          *)
(*                                                                         *)
(* The model covers the Lattice (generate, sweep, the row-major index)     *)
(* and the trial closure of main: one lattice is generated, swept until a  *)
(* sweep returns Identity, and its sweep count is added to the sum of the  *)
(* probability point.                                                      *)
(***************************************************************************)
EXTENDS Integers, Sequences, FiniteSets

\* ------------------------------------------------------------------ bounds

\* Largest lattice side explored (SIDE on the command line) for one trial.
MaxSide == 3

\* Largest lattice side explored when the trials of a probability point are
\* summed (PointSpec).
MaxPointSide == 2

\* main rejects resolution <= ResolutionFloor; the model runs the smallest
\* resolution main accepts.
ResolutionFloor == 2
Resolution == ResolutionFloor + 1

\* rand::random::<f64>() is modelled as u = k / DrawDen for k in 0..DrawDen-1,
\* a uniform draw of [0,1) on a grid of DrawDen points.
DrawDen == 2

\* The sample argument (-s): trials per probability point.
SampleSize == 2

\* Largest lattice side explored when main runs all its trials in parallel
\* (DriverSpec); 0 is the side main rejects.
MaxDriverSide == 2

\* The sample argument (-s) of the runs of DriverSpec.
DriverSample == 2

\* Threads of the rayon pool: at most this many trial closures are in
\* progress at a time.
Workers == 2

\* The trial's counter `sweeps` is explored up to here; above MaxSide^2.
SweepCap == MaxSide * MaxSide + 1

\* ------------------------------------------------------------------ types

\* enum LatticePoint
Empty == "Empty"
Tree == "Tree"
Burning == "Burning"
LatticePoint == {Empty, Tree, Burning}

\* enum SweepResult ("None": no sweep has returned yet)
Identity == "Identity"
Ignited == "Ignited"
NoResult == "None"

VARIABLES
    side,      \* Lattice.side (n)
    pidx,      \* index of the probability point, p = pidx / Resolution
    current,   \* Lattice.current: [0 .. side*side-1 -> LatticePoint]
    pc,        \* position of the trial closure: "generate", "loop", "done", "end"
    sweeps,    \* the trial's counter `sweeps`
    result,    \* value returned by the last sweep call on this lattice
    calls,     \* number of sweep calls made on this lattice
    ignited,   \* number of those calls that returned Ignited
    trial,     \* number of trials of this probability point already summed
    sum,       \* running sum of the trials' sweep counts
    initial,   \* the lattice as Lattice::generate returned it (history)
    dn,        \* main: n, the SIDE argument
    dres,      \* main: resolution
    mpc,       \* position of main: "off", "check", "run", "print", "exit"
    err,       \* the message main wrote with eprintln!, or "none"
    tasks,     \* the trial closures, by <<pidx, trial index>>: [pc, lattice,
               \* sweeps, generated (history), expected (history)]
    psum,      \* by pidx: the sum of the sweep counts returned so far
    pdone,     \* by pidx: the number of trial closures that have returned
    slots,     \* the Vec that collect() fills, by position: <<record>>, or
               \* <<>> while the position is unset
    out        \* the records printed to stdout, in order

\* The variables of main and of its parallel closures
dvars == <<dn, dres, mpc, err, tasks, psum, pdone, slots, out>>

vars == <<side, pidx, current, pc, sweeps, result, calls, ignited, trial, sum,
          initial, dvars>>

\* ------------------------------------------------------------------ Lattice

\* Index / IndexMut: the linear index of (row, col)
Index(n, row, col) == row * n + col

\* self[(row, col)]
At(cells, n, row, col) == cells[Index(n, row, col)]

\* Variant of DrawBelow: the comparison written `<=`
DrawBelow_le(k, px) == k * Resolution <= px * DrawDen

\* rand::random::<f64>() < p, with u = k / DrawDen and p = px / Resolution
DrawBelow(k, px) == k * Resolution < px * DrawDen

\* The outcomes `rand::random::<f64>() < p` can have for one cell
DrawOutcomes(px) == {DrawBelow(k, px) : k \in 0 .. DrawDen - 1}

\* Variant of generate: the first row tested with `i <= n`
generate_le(n, occupied) ==
    [i \in 0 .. n * n - 1 |->
        IF occupied[i]
        THEN IF i <= n THEN Burning ELSE Tree
        ELSE Empty]

\* Lattice::generate, given for every index whether its draw was below p
generate(n, occupied) ==
    [i \in 0 .. n * n - 1 |->
        IF occupied[i]
        THEN IF i < n THEN Burning ELSE Tree
        ELSE Empty]

\* The element of a one-element set
Only(S) == CHOOSE x \in S : TRUE

\* Variant of should_burn: the left neighbour is guarded by the linear index
\* instead of the column, so column 0 looks at the end of the row above
should_burn_wrap(cells, n, i, j) ==
    \/ (i > 0 /\ At(cells, n, i - 1, j) = Burning)
    \/ (i < n - 1 /\ At(cells, n, i + 1, j) = Burning)
    \/ (Index(n, i, j) > 0 /\ cells[Index(n, i, j) - 1] = Burning)
    \/ (j < n - 1 /\ At(cells, n, i, j + 1) = Burning)

\* should_burn of Lattice::sweep for the cell (i, j)
should_burn(cells, n, i, j) ==
    \/ (i > 0 /\ At(cells, n, i - 1, j) = Burning)
    \/ (i < n - 1 /\ At(cells, n, i + 1, j) = Burning)
    \/ (j > 0 /\ At(cells, n, i, j - 1) = Burning)
    \/ (j < n - 1 /\ At(cells, n, i, j + 1) = Burning)

\* Variant of VisitCell: every cell that is not Burning can ignite
VisitCell_any(st, n, i, j) ==
    Only({IF At(s.cells, n, i, j) # Burning /\ should_burn(s.cells, n, i, j)
          THEN [cells |-> [s.cells EXCEPT ![Index(n, i, j)] = Burning],
                result |-> Ignited]
          ELSE s : s \in {st}})

\* Variant of VisitCell: a Burning cell burns out to Empty when visited
VisitCell_burnout(st, n, i, j) ==
    Only({IF At(s.cells, n, i, j) = Tree /\ should_burn(s.cells, n, i, j)
          THEN [cells |-> [s.cells EXCEPT ![Index(n, i, j)] = Burning],
                result |-> Ignited]
          ELSE IF At(s.cells, n, i, j) = Burning
               THEN [s EXCEPT !.cells[Index(n, i, j)] = Empty]
               ELSE s : s \in {st}})

\* Variant of VisitCell: the result is set for every Tree cell, outside the
\* test of should_burn
VisitCell_flag(st, n, i, j) ==
    Only({IF At(s.cells, n, i, j) = Tree
          THEN [cells |-> IF should_burn(s.cells, n, i, j)
                          THEN [s.cells EXCEPT ![Index(n, i, j)] = Burning]
                          ELSE s.cells,
                result |-> Ignited]
          ELSE s : s \in {st}})

\* Variant of VisitCell: the down neighbour is not looked at
VisitCell_nodown(st, n, i, j) ==
    Only({IF /\ At(s.cells, n, i, j) = Tree
             /\ \/ (i > 0 /\ At(s.cells, n, i - 1, j) = Burning)
                \/ (j > 0 /\ At(s.cells, n, i, j - 1) = Burning)
                \/ (j < n - 1 /\ At(s.cells, n, i, j + 1) = Burning)
          THEN [cells |-> [s.cells EXCEPT ![Index(n, i, j)] = Burning],
                result |-> Ignited]
          ELSE s : s \in {st}})

\* Variant of VisitCell: the left neighbour is not looked at
VisitCell_noleft(st, n, i, j) ==
    Only({IF /\ At(s.cells, n, i, j) = Tree
             /\ \/ (i > 0 /\ At(s.cells, n, i - 1, j) = Burning)
                \/ (i < n - 1 /\ At(s.cells, n, i + 1, j) = Burning)
                \/ (j < n - 1 /\ At(s.cells, n, i, j + 1) = Burning)
          THEN [cells |-> [s.cells EXCEPT ![Index(n, i, j)] = Burning],
                result |-> Ignited]
          ELSE s : s \in {st}})

\* The body of the inner loop of Lattice::sweep, applied to the sweep's state
\* st = [cells, result]: the buffer and the local `result` (s is st, bound
\* once).
VisitCell(st, n, i, j) ==
    Only({IF At(s.cells, n, i, j) = Tree /\ should_burn(s.cells, n, i, j)
          THEN [cells |-> [s.cells EXCEPT ![Index(n, i, j)] = Burning],
                result |-> Ignited]
          ELSE s : s \in {st}})

\* for j in j..side (the columns of row i, from column j on)
RECURSIVE SweepCols(_, _, _, _)
SweepCols(st, n, i, j) ==
    IF j >= n THEN st ELSE SweepCols(VisitCell(st, n, i, j), n, i, j + 1)

\* for i in i..side (the rows, from row i on)
RECURSIVE SweepRows(_, _, _)
SweepRows(st, n, i) ==
    IF i >= n THEN st ELSE SweepRows(SweepCols(st, n, i, 0), n, i + 1)

\* Variant of sweep: double-buffered, every cell reads the grid of before the
\* call
sweep_double_buffer(cells, n) ==
    LET lit == {k \in DOMAIN cells :
                    /\ cells[k] = Tree
                    /\ should_burn(cells, n, k \div n, k % n)}
    IN  [cells |-> [k \in DOMAIN cells |-> IF k \in lit THEN Burning ELSE cells[k]],
         result |-> IF lit = {} THEN Identity ELSE Ignited]

\* Lattice::sweep: the cells after the call and the value returned
sweep(cells, n) == SweepRows([cells |-> cells, result |-> Identity], n, 0)

\* ------------------------------------------------------------------ accesses

\* self[(row, col)] where the index may lie outside the slice (the program
\* panics there; the model reads Empty and keeps the access on record)
SafeAt(cells, n, row, col) ==
    IF Index(n, row, col) \in DOMAIN cells THEN cells[Index(n, row, col)] ELSE Empty

\* Variant of Tests: the right neighbour guarded by `j < side`
Tests_colbound(cells, n, i, j) ==
    << [guard |-> i > 0, subs |-> IF i > 0 THEN {<<i, 1>>} ELSE {},
        read |-> <<i - 1, j>>],
       [guard |-> i < n - 1, subs |-> {<<n, 1>>},
        read |-> <<i + 1, j>>],
       [guard |-> j > 0, subs |-> IF j > 0 THEN {<<j, 1>>} ELSE {},
        read |-> <<i, j - 1>>],
       [guard |-> j < n, subs |-> {},
        read |-> <<i, j + 1>>] >>

\* The four operands of `||` in should_burn, in source order: the guard, the
\* usize subtractions a - b (as <<a, b>>) evaluated with the operand, and the
\* cell read when the guard holds (`&&` does not evaluate i - 1 or j - 1
\* when its guard fails)
Tests(cells, n, i, j) ==
    << [guard |-> i > 0, subs |-> IF i > 0 THEN {<<i, 1>>} ELSE {},
        read |-> <<i - 1, j>>],
       [guard |-> i < n - 1, subs |-> {<<n, 1>>},
        read |-> <<i + 1, j>>],
       [guard |-> j > 0, subs |-> IF j > 0 THEN {<<j, 1>>} ELSE {},
        read |-> <<i, j - 1>>],
       [guard |-> j < n - 1, subs |-> {<<n, 1>>},
        read |-> <<i, j + 1>>] >>

\* should_burn with its evaluation on record: `||` stops at the first
\* operand that holds
ShouldBurnLog(cells, n, i, j) ==
    LET t == Tests(cells, n, i, j)
        Hit(x) == t[x].guard /\ SafeAt(cells, n, t[x].read[1], t[x].read[2]) = Burning
        hits == {x \in 1 .. 4 : Hit(x)}
        last == IF hits = {} THEN 4 ELSE CHOOSE x \in hits : \A y \in hits : x <= y
    IN  [burn |-> hits # {},
         reads |-> {t[x].read : x \in {y \in 1 .. last : t[y].guard}},
         subs |-> UNION {t[x].subs : x \in 1 .. last}]

\* The body of the inner loop of Lattice::sweep with its cell accesses and
\* subtractions on record: st = [cells, reads, subs]
VisitLog(st, n, i, j) ==
    Only({IF SafeAt(s.cells, n, i, j) = Tree
          THEN Only({[cells |-> IF b.burn
                                THEN [s.cells EXCEPT ![Index(n, i, j)] = Burning]
                                ELSE s.cells,
                      reads |-> s.reads \cup {<<i, j>>} \cup b.reads,
                      subs |-> s.subs \cup b.subs]
                     : b \in {ShouldBurnLog(s.cells, n, i, j)}})
          ELSE [s EXCEPT !.reads = @ \cup {<<i, j>>}]
          : s \in {st}})

RECURSIVE LogCols(_, _, _, _)
LogCols(st, n, i, j) ==
    IF j >= n THEN st ELSE LogCols(VisitLog(st, n, i, j), n, i, j + 1)

RECURSIVE LogRows(_, _, _)
LogRows(st, n, i) ==
    IF i >= n THEN st ELSE LogRows(LogCols(st, n, i, 0), n, i + 1)

\* Lattice::sweep with every cell access and usize subtraction on record
SweepLog(cells, n) == LogRows([cells |-> cells, reads |-> {}, subs |-> {}], n, 0)

\* ------------------------------------------------------------------ actions

\* main is not part of the run
DriverOff ==
    /\ dn = 0
    /\ dres = 0
    /\ mpc = "off"
    /\ err = "none"
    /\ tasks = <<>>
    /\ psum = <<>>
    /\ pdone = <<>>
    /\ slots = <<>>
    /\ out = <<>>

\* The state of a trial closure that has not generated its lattice yet
Fresh ==
    /\ DriverOff
    /\ pidx \in 0 .. Resolution
    /\ current = <<>>
    /\ pc = "generate"
    /\ sweeps = 0
    /\ result = NoResult
    /\ calls = 0
    /\ ignited = 0
    /\ trial = 0
    /\ sum = 0
    /\ initial = <<>>

Init == side \in 1 .. MaxSide /\ Fresh

\* let mut lattice = Lattice::generate(n, p); let mut sweeps = 0;
Generate ==
    /\ pc = "generate"
    /\ \E occupied \in [0 .. side * side - 1 -> DrawOutcomes(pidx)] :
           /\ current' = generate(side, occupied)
           /\ initial' = generate(side, occupied)
    /\ sweeps' = 0
    /\ pc' = "loop"
    /\ UNCHANGED <<side, pidx, result, calls, ignited, trial, sum, dvars>>

\* Variant of TrialSweep: `sweeps += 1` counts every call, the last included
TrialSweep_count_all ==
    /\ pc = "loop"
    /\ sweeps < SweepCap
    /\ LET r == sweep(current, side) IN
           /\ current' = r.cells
           /\ result' = r.result
           /\ calls' = calls + 1
           /\ sweeps' = sweeps + 1
           /\ IF r.result = Ignited
              THEN ignited' = ignited + 1 /\ pc' = "loop"
              ELSE ignited' = ignited /\ pc' = "done"
    /\ UNCHANGED <<side, pidx, trial, sum, initial, dvars>>

\* while let SweepResult::Ignited = lattice.sweep() { sweeps += 1; }
\* One evaluation of the loop condition, and the loop body when it matches.
TrialSweep ==
    /\ pc = "loop"
    /\ sweeps < SweepCap
    /\ LET r == sweep(current, side) IN
           /\ current' = r.cells
           /\ result' = r.result
           /\ calls' = calls + 1
           /\ IF r.result = Ignited
              THEN /\ sweeps' = sweeps + 1
                   /\ ignited' = ignited + 1
                   /\ pc' = "loop"
              ELSE /\ sweeps' = sweeps
                   /\ ignited' = ignited
                   /\ pc' = "done"
    /\ UNCHANGED <<side, pidx, trial, sum, initial, dvars>>

\* One trial: generate, then sweep until Identity; `sweeps` is its outcome.
Next == Generate \/ TrialSweep

Spec == Init /\ [][Next]_vars

\* A lattice on which sweep is called again and again, whatever the earlier
\* calls returned.
SweepCall ==
    /\ pc = "loop"
    /\ LET r == sweep(current, side) IN
           /\ current' = r.cells
           /\ result' = r.result
    /\ UNCHANGED <<side, pidx, pc, sweeps, calls, ignited, trial, sum, initial, dvars>>

LatticeNext == Generate \/ SweepCall

LatticeSpec == Init /\ [][LatticeNext]_vars

\* (0..sample_size).map(trial).sum::<f64>(): the finished trial's
\* `sweeps as f64` is added to the sum and its lattice is dropped; the sweep
\* counts are small integers, which f64 adds exactly.
Accumulate ==
    /\ pc = "done"
    /\ sum' = sum + sweeps
    /\ trial' = trial + 1
    /\ pc' = IF trial + 1 < SampleSize THEN "generate" ELSE "end"
    /\ current' = <<>>
    /\ sweeps' = 0
    /\ result' = NoResult
    /\ calls' = 0
    /\ ignited' = 0
    /\ initial' = <<>>
    /\ UNCHANGED <<side, pidx, dvars>>

PointInit == side \in 1 .. MaxPointSide /\ Fresh

PointNext == Generate \/ TrialSweep \/ Accumulate

\* The trials of one probability point, one after another
PointSpec == PointInit /\ [][PointNext]_vars

\* The loop of a closure that has generated its lattice runs on its worker
\* until it is left: it is never suspended for ever.
FairSpec == PointInit /\ [][PointNext]_vars /\ WF_vars(TrialSweep)

\* ------------------------------------------------------------------ main

\* The variables of the single trial closure of Spec, PointSpec, LatticeSpec
tvars == <<side, pidx, current, pc, sweeps, result, calls, ignited, trial, sum,
           initial>>

\* (0..=resolution) x (0..sample_size): one trial closure per pair
Points == 0 .. dres
Tasks == Points \X (0 .. DriverSample - 1)

\* A trial closure that has not started
Todo == [pc |-> "todo", lattice |-> <<>>, sweeps |-> 0, generated |-> <<>>,
         expected |-> 0]

Running == {t \in DOMAIN tasks : tasks[t].pc = "loop"}

\* Number of Ignited sweeps of a sequential run of the trial loop on `cells`
RECURSIVE TrialCount(_, _)
TrialCount(cells, n) ==
    Only({IF r.result = Identity THEN 0 ELSE 1 + TrialCount(r.cells, n)
          : r \in {sweep(cells, n)}})

\* main has parsed its arguments
DriverInit ==
    /\ side = 0 /\ pidx = 0 /\ current = <<>> /\ pc = "off" /\ sweeps = 0
    /\ result = NoResult /\ calls = 0 /\ ignited = 0 /\ trial = 0 /\ sum = 0
    /\ initial = <<>>
    /\ dn \in 0 .. MaxDriverSide
    /\ dres \in 0 .. Resolution
    /\ mpc = "check"
    /\ err = "none"
    /\ tasks = [t \in Tasks |-> Todo]
    /\ psum = [px \in Points |-> 0]
    /\ pdone = [px \in Points |-> 0]
    /\ slots = [i \in Points |-> <<>>]
    /\ out = <<>>

\* Variant of Validate: the resolution tested with `<`
Validate_lt ==
    /\ mpc = "check"
    /\ IF dn = 0
       THEN err' = "You must set a non-zero lattice" /\ mpc' = "exit"
       ELSE IF dres < ResolutionFloor
            THEN err' = "The resolution must be higher than 2" /\ mpc' = "exit"
            ELSE err' = err /\ mpc' = "run"
    /\ UNCHANGED <<tvars, dn, dres, tasks, psum, pdone, slots, out>>

\* Check argument validity: n == 0, then resolution <= 2; each writes its
\* message and returns Ok(())
Validate ==
    /\ mpc = "check"
    /\ IF dn = 0
       THEN err' = "You must set a non-zero lattice" /\ mpc' = "exit"
       ELSE IF dres <= ResolutionFloor
            THEN err' = "The resolution must be higher than 2" /\ mpc' = "exit"
            ELSE err' = err /\ mpc' = "run"
    /\ UNCHANGED <<tvars, dn, dres, tasks, psum, pdone, slots, out>>

\* A worker starts the trial closure t: Lattice::generate(n, p), sweeps = 0
StartTrial(t) ==
    /\ mpc = "run"
    /\ tasks[t].pc = "todo"
    /\ Cardinality(Running) < Workers
    /\ \E occupied \in [0 .. dn * dn - 1 -> DrawOutcomes(t[1])] :
           tasks' = [tasks EXCEPT ![t] =
                        [pc |-> "loop",
                         lattice |-> generate(dn, occupied),
                         sweeps |-> 0,
                         generated |-> generate(dn, occupied),
                         expected |-> TrialCount(generate(dn, occupied), dn)]]
    /\ UNCHANGED <<tvars, dn, dres, mpc, err, psum, pdone, slots, out>>

\* Variant of SweepTrial: the closures sweep one shared lattice, the one of
\* the first closure in progress
SweepTrial_shared(t) ==
    /\ mpc = "run"
    /\ tasks[t].pc = "loop"
    /\ tasks[t].sweeps < SweepCap
    /\ LET u == CHOOSE x \in Running : \A y \in Running : x[1] < y[1] \/ (x[1] = y[1] /\ x[2] <= y[2])
           r == sweep(tasks[u].lattice, dn)
       IN  IF r.result = Ignited
           THEN /\ tasks' = [tasks EXCEPT ![u].lattice = r.cells,
                                          ![t].sweeps = @ + 1]
                /\ UNCHANGED <<psum, pdone>>
           ELSE /\ tasks' = [tasks EXCEPT ![t].pc = "done",
                                          ![t].lattice = <<>>,
                                          ![t].generated = <<>>,
                                          ![t].sweeps = 0]
                /\ psum' = [psum EXCEPT ![t[1]] = @ + tasks[t].sweeps]
                /\ pdone' = [pdone EXCEPT ![t[1]] = @ + 1]
    /\ UNCHANGED <<tvars, dn, dres, mpc, err, slots, out>>

\* The closure t evaluates its loop condition: lattice.sweep() on its own
\* lattice; on Ignited sweeps += 1, on Identity the closure returns `sweeps`,
\* which sum() adds to the sum of its probability point, and its lattice is
\* dropped
SweepTrial(t) ==
    /\ mpc = "run"
    /\ tasks[t].pc = "loop"
    /\ tasks[t].sweeps < SweepCap
    /\ LET r == sweep(tasks[t].lattice, dn)
       IN  IF r.result = Ignited
           THEN /\ tasks' = [tasks EXCEPT ![t].lattice = r.cells,
                                          ![t].sweeps = @ + 1]
                /\ UNCHANGED <<psum, pdone>>
           ELSE /\ tasks' = [tasks EXCEPT ![t].pc = "done",
                                          ![t].lattice = <<>>,
                                          ![t].generated = <<>>,
                                          ![t].sweeps = 0]
                /\ psum' = [psum EXCEPT ![t[1]] = @ + tasks[t].sweeps]
                /\ pdone' = [pdone EXCEPT ![t[1]] = @ + 1]
    /\ UNCHANGED <<tvars, dn, dres, mpc, err, slots, out>>

\* The record of a probability point: p = px / resolution and the mean
\* sum / sample_size, both kept as exact fractions
Record(px) ==
    [p_num |-> px, p_den |-> dres, sum |-> psum[px], sample |-> DriverSample]

\* Variant of CollectPoint: the record goes to the first unset position, in
\* order of arrival
CollectPoint_arrival(px) ==
    /\ mpc = "run"
    /\ pdone[px] = DriverSample
    /\ \A i \in Points : slots[i] # <<Record(px)>>
    /\ LET free == {i \in Points : slots[i] = <<>>}
           first == CHOOSE i \in free : \A k \in free : i <= k
       IN  slots' = [slots EXCEPT ![first] = <<Record(px)>>]
    /\ UNCHANGED <<tvars, dn, dres, mpc, err, tasks, psum, pdone, out>>

\* The outer closure of the point px returns (p, sum / sample_size) when its
\* trials have been summed; collect() of the indexed parallel iterator puts
\* it at position pidx of the Vec
CollectPoint(px) ==
    /\ mpc = "run"
    /\ pdone[px] = DriverSample
    /\ \A i \in Points : slots[i] # <<Record(px)>>
    /\ slots' = [slots EXCEPT ![px] = <<Record(px)>>]
    /\ UNCHANGED <<tvars, dn, dres, mpc, err, tasks, psum, pdone, out>>

\* collect() returns once every position is set
Collected ==
    /\ mpc = "run"
    /\ \A i \in Points : slots[i] # <<>>
    /\ mpc' = "print"
    /\ UNCHANGED <<tvars, dn, dres, err, tasks, psum, pdone, slots, out>>

\* for (p, t) in result { println!(..) }: one record, then Ok(()) after the
\* last
PrintRecord ==
    /\ mpc = "print"
    /\ out' = Append(out, slots[Len(out)][1])
    /\ mpc' = IF Len(out) + 1 = dres + 1 THEN "exit" ELSE "print"
    /\ UNCHANGED <<tvars, dn, dres, err, tasks, psum, pdone, slots>>

DriverNext ==
    \/ Validate
    \/ \E t \in Tasks : StartTrial(t)
    \/ \E t \in Tasks : SweepTrial(t)
    \/ \E px \in Points : CollectPoint(px)
    \/ Collected
    \/ PrintRecord

\* main, with its trial closures running in parallel on the pool
DriverSpec == DriverInit /\ [][DriverNext]_vars

\* ------------------------------------------------------------------ geometry

\* The grid seen as rows and columns, independently of the linear index
\* arithmetic of sweep.
Cells == 0 .. side * side - 1
Row(k) == k \div side
Col(k) == k % side
Dist(a, b) == IF a >= b THEN a - b ELSE b - a

\* a and b are orthogonal neighbours inside the grid
Adjacent(a, b) == Dist(Row(a), Row(b)) + Dist(Col(a), Col(b)) = 1
Neighbours(k) == {m \in Cells : Adjacent(k, m)}

BurningSet == {k \in DOMAIN current : current[k] = Burning}
TreeSet == {k \in DOMAIN current : current[k] = Tree}
EmptySet == {k \in DOMAIN current : current[k] = Empty}

\* The cells joined to a cell of S by a path of adjacent occupied cells
RECURSIVE Spread(_)
Spread(S) ==
    LET T == S \cup {k \in Cells : /\ current[k] # Empty
                                   /\ \E m \in S : Adjacent(k, m)}
    IN  IF T = S THEN S ELSE Spread(T)

\* A step of the trial that is one call of sweep
SweepStep == calls' = calls + 1

\* ------------------------------------------------------------------ C1

\* C1: in one call of sweep the cells are visited in row-major order over one
\* shared buffer: when cell k is visited the cells before k hold their values
\* of after the call and the cells from k on their values of before it. A
\* Tree cell becomes Burning iff one of its in-grid orthogonal neighbours is
\* Burning in that buffer, and stays Tree otherwise; neighbours outside the
\* grid are absent, never wrapped.
C1_InPlaceRule ==
    [][SweepStep =>
        \A k \in Cells :
            LET buffer == [m \in Cells |-> IF m < k THEN current'[m] ELSE current[m]]
            IN  current[k] = Tree =>
                    current'[k] = IF \E m \in Neighbours(k) : buffer[m] = Burning
                                  THEN Burning
                                  ELSE Tree]_vars

\* After exactly one call a cell of row 2 or below burns: it was set alight
\* by a cell that the same pass had ignited.
C1_Witness ==
    /\ calls = 1
    /\ \E k \in BurningSet : Row(k) >= 2
    /\ TreeSet # {}

\* ------------------------------------------------------------------ C2

\* C2: a call of sweep leaves every Empty and every Burning cell as it was;
\* the only change it makes to a cell is Tree to Burning, and it changes
\* neither the side nor the number of cells.
C2_Frame ==
    [][SweepStep =>
        /\ side' = side
        /\ DOMAIN current' = DOMAIN current
        /\ \A k \in Cells :
               \/ current'[k] = current[k]
               \/ current[k] = Tree /\ current'[k] = Burning]_vars

\* A sweep has ignited something on a lattice that has Empty cells and had
\* Burning cells before the call (row 0 is never ignited by a sweep).
C2_Witness ==
    /\ calls >= 1
    /\ result = Ignited
    /\ EmptySet # {}
    /\ \E k \in BurningSet : Row(k) = 0

\* ------------------------------------------------------------------ C3

\* C3: across the sweep calls on one lattice the set of Burning cells never
\* shrinks: a cell that is Burning stays Burning in the next state, hence in
\* every later one.
C3_BurningMonotone ==
    [][\A k \in BurningSet : k \in DOMAIN current' /\ current'[k] = Burning]_vars

\* Sweeps have run to the fixpoint and cells outside row 0 burn.
C3_Witness ==
    /\ result = Identity
    /\ \E k \in BurningSet : Row(k) >= 1

\* ------------------------------------------------------------------ C4

\* C4: sweep returns Ignited iff the grid after the call differs from the
\* grid before it, and Identity exactly when the grid is unchanged.
C4_ResultIffChanged ==
    [][SweepStep =>
        /\ result' \in {Ignited, Identity}
        /\ result' = Ignited <=> current' # current
        /\ result' = Identity <=> current' = current]_vars

\* A trial in which sweep returned Ignited and then Identity, with Tree
\* cells left over.
C4_Witness ==
    /\ pc = "done"
    /\ sweeps >= 1
    /\ TreeSet # {}

\* ------------------------------------------------------------------ C5

\* C5: once a sweep has returned Identity, no Tree cell has a Burning
\* orthogonal neighbour, no Tree cell is joined to a Burning cell by a path
\* of occupied cells, and every further sweep returns Identity and leaves the
\* grid unchanged.
C5_IdentityIsFixpoint ==
    /\ [](result = Identity =>
            /\ \A k \in TreeSet : \A m \in Neighbours(k) : current[m] # Burning
            /\ Spread(BurningSet) \cap TreeSet = {})
    /\ [][result = Identity => result' = Identity /\ current' = current]_vars

\* Identity was returned on a lattice where fire has spread below row 0 and
\* Tree cells remain.
C5_Witness ==
    /\ result = Identity
    /\ TreeSet # {}
    /\ \E k \in BurningSet : Row(k) >= 1

\* ------------------------------------------------------------------ C6

\* C6: for every side n > 0 and every generated lattice the trial loop
\* terminates: after finitely many calls some sweep returns Identity and the
\* loop is left.
C6_TrialTerminates == (pc = "loop") ~> (pc = "done" /\ result = Identity)

\* A trial that ended after several Ignited sweeps.
C6_Witness ==
    /\ pc = "done"
    /\ result = Identity
    /\ sweeps >= 2

\* ------------------------------------------------------------------ C7

\* C7: on an n x n lattice the number of sweeps that return Ignited before
\* the first Identity is at most n*n.
C7_IgnitedBound ==
    /\ ignited <= side * side
    /\ sweeps <= side * side

\* A finished trial on the largest lattice with several Ignited sweeps.
C7_Witness ==
    /\ pc = "done"
    /\ side = MaxSide
    /\ ignited >= 3

\* ------------------------------------------------------------------ C8

\* C8: the trial's outcome `sweeps` is the number of sweep calls that returned
\* Ignited; while the loop runs every call so far returned Ignited, and at the
\* end the outcome is the number of calls minus the one final call, which
\* returned Identity; no sweep call is made after the first Identity.
C8_OutcomeCountsIgnited ==
    /\ [](sweeps = ignited)
    /\ [](pc = "loop" => calls = sweeps /\ result # Identity)
    /\ [](pc = "done" => calls = sweeps + 1 /\ result = Identity)
    /\ [][result = Identity => calls' = calls]_vars

\* A finished trial whose outcome is 2: three calls, the last one Identity.
C8_Witness ==
    /\ pc = "done"
    /\ calls = 3
    /\ sweeps = 2

\* ------------------------------------------------------------------ C9

\* C9: at p = 0 every generated lattice is entirely Empty, the first sweep of
\* every trial returns Identity so that every trial's sweep count is 0, and
\* the sum of the sweep counts of the probability point is exactly 0.
C9_ZeroProbability ==
    pidx = 0 =>
        /\ EmptySet = DOMAIN current
        /\ sweeps = 0
        /\ ignited = 0
        /\ calls <= 1
        /\ calls = 1 => result = Identity /\ pc = "done"
        /\ sum = 0

\* All the trials of the point p = 0 have been summed, on the largest lattice.
C9_Witness ==
    /\ pidx = 0
    /\ pc = "end"
    /\ trial = SampleSize
    /\ side = MaxPointSide

\* ------------------------------------------------------------------ C10

\* C10: at p = 1 the generated lattice has row 0 entirely Burning and every
\* other row entirely Tree; the first sweep ignites every Tree cell, and the
\* trial's sweep count is 0 for n = 1 and exactly 1 for every n >= 2.
C10_FullProbability ==
    (pidx = Resolution /\ pc # "generate") =>
        /\ calls = 0 =>
               \A k \in Cells : current[k] = IF Row(k) = 0 THEN Burning ELSE Tree
        /\ calls >= 1 => BurningSet = Cells
        /\ pc = "done" => sweeps = IF side = 1 THEN 0 ELSE 1

\* The trial on the 3 x 3 lattice at p = 1 ended with sweep count 1.
C10_Witness ==
    /\ pidx = Resolution
    /\ side = 3
    /\ pc = "done"
    /\ sweeps = 1

\* ------------------------------------------------------------------ C11

\* C11: generate(n, p) gives every cell the value its draw u decides: with
\* u < p the cell is Burning in row 0 and Tree in every other row, with
\* u >= p it is Empty; hence at generation row 0 holds no Tree and the rows
\* below hold no Burning cell.
C11_GenerateRule ==
    /\ [][pc = "generate" /\ pc' = "loop" =>
            /\ DOMAIN current' = Cells
            /\ \A k \in Cells : \E u \in 0 .. DrawDen - 1 :
                   current'[k] =
                       IF u * Resolution < pidx * DrawDen
                       THEN (IF Row(k) = 0 THEN Burning ELSE Tree)
                       ELSE Empty]_vars
    /\ [](\A k \in DOMAIN initial :
              /\ Row(k) = 0 => initial[k] # Tree
              /\ Row(k) >= 1 => initial[k] # Burning)

\* A lattice of the largest side was generated with Empty, Burning and Tree
\* cells.
C11_Witness ==
    /\ pc = "loop"
    /\ calls = 0
    /\ side = MaxSide
    /\ current = initial
    /\ EmptySet # {} /\ BurningSet # {} /\ TreeSet # {}

\* ------------------------------------------------------------------ reference

\* The double-buffered (synchronous) sweep the in-place sweep is compared
\* with: sweep_double_buffer, k times over
RECURSIVE SyncAfter(_, _, _)
SyncAfter(cells, n, k) ==
    IF k = 0
    THEN cells
    ELSE Only({sweep_double_buffer(c, n).cells : c \in {SyncAfter(cells, n, k - 1)}})

\* Number of synchronous sweeps that return Ignited before the first Identity
RECURSIVE SyncCount(_, _)
SyncCount(cells, n) ==
    Only({IF r.result = Identity THEN 0 ELSE 1 + SyncCount(r.cells, n)
          : r \in {sweep_double_buffer(cells, n)}})

\* The grid the synchronous sweep ends on
RECURSIVE SyncFixpoint(_, _)
SyncFixpoint(cells, n) ==
    Only({IF r.result = Identity THEN r.cells ELSE SyncFixpoint(r.cells, n)
          : r \in {sweep_double_buffer(cells, n)}})

BurningIn(cells) == {k \in DOMAIN cells : cells[k] = Burning}
TreeIn(cells) == {k \in DOMAIN cells : cells[k] = Tree}
OccupiedIn(cells) == {k \in DOMAIN cells : cells[k] # Empty}

\* The cells of `cells` joined to a cell of S by a path of orthogonally
\* adjacent occupied cells
RECURSIVE Connected(_, _)
Connected(cells, S) ==
    LET T == S \cup {k \in OccupiedIn(cells) : \E m \in S : Adjacent(k, m)}
    IN  IF T = S THEN S ELSE Connected(cells, T)

\* ------------------------------------------------------------------ C15

\* C15: the in-place sweep is not equivalent to the double-buffered sweep:
\* generate produces lattices on which the two sweep counts differ. On the
\* fully occupied lattice of side >= 3 (generated at p = 1) the trial ends
\* with sweep count 1 while the double-buffered sweep needs side - 1 sweeps.
C15_InPlaceDiffersFromSync ==
    (pc = "done" /\ pidx = Resolution /\ side >= 3) =>
        /\ sweeps = 1
        /\ SyncCount(initial, side) = side - 1
        /\ sweeps # SyncCount(initial, side)

\* The trial on the fully occupied 3 x 3 lattice has ended; the synchronous
\* count of its generated lattice is another number.
C15_Witness ==
    /\ pc = "done"
    /\ pidx = Resolution
    /\ side = 3
    /\ TreeIn(initial) # {}
    /\ sweeps # SyncCount(initial, side)

\* ------------------------------------------------------------------ C16

\* C16: when a trial ends, the Burning cells are exactly the generated
\* occupied cells joined to a generated Burning cell by a path of adjacent
\* occupied cells, and the final grid is the grid the double-buffered sweep
\* reaches at its fixpoint from the same generated lattice.
C16_FinalGrid ==
    pc = "done" =>
        /\ BurningSet = Connected(initial, BurningIn(initial))
        /\ current = SyncFixpoint(initial, side)

\* A trial has ended with fire spread below row 0, Tree cells left, and a
\* sweep count other than the synchronous one.
C16_Witness ==
    /\ pc = "done"
    /\ TreeSet # {}
    /\ BurningSet # BurningIn(initial)
    /\ sweeps # SyncCount(initial, side)

\* ------------------------------------------------------------------ C18

\* C18: over a lattice's life the set of Empty cells and the number of
\* occupied cells stay what generate made them, and every sweep that returns
\* Ignited strictly decreases the number of Tree cells; hence the sweep count
\* is at most the number of Tree cells at generation, itself at most n*(n-1).
C18_TreeCountVariant ==
    /\ [](pc \in {"loop", "done"} =>
            /\ EmptySet = DOMAIN initial \ OccupiedIn(initial)
            /\ Cardinality(TreeSet \cup BurningSet) = Cardinality(OccupiedIn(initial))
            /\ sweeps <= Cardinality(TreeIn(initial))
            /\ Cardinality(TreeIn(initial)) <= side * (side - 1))
    /\ [][SweepStep /\ result' = Ignited =>
            Cardinality(TreeSet') < Cardinality(TreeSet)]_vars

\* A trial on the largest lattice ended after several Ignited sweeps with
\* Empty cells and Tree cells left.
C18_Witness ==
    /\ pc = "done"
    /\ side = MaxSide
    /\ sweeps >= 2
    /\ EmptySet # {}
    /\ TreeSet # {}

\* ------------------------------------------------------------------ C19

\* C19: for every generated lattice the in-place sweep count is at most the
\* double-buffered sweep count, and after any number k of sweeps the in-place
\* Burning set contains the Burning set of k double-buffered sweeps.
C19_InPlaceDominatesSync ==
    pc \in {"loop", "done"} =>
        /\ BurningIn(SyncAfter(initial, side, calls)) \subseteq BurningSet
        /\ sweeps <= SyncCount(initial, side)

\* A trial ended with strictly fewer sweeps than the synchronous sweep needs.
C19_Witness ==
    /\ pc = "done"
    /\ sweeps >= 1
    /\ sweeps < SyncCount(initial, side)

\* ------------------------------------------------------------------ C17

\* C17: the cell sequence has length side*side from generation on, and every
\* cell access of a sweep uses a row and a column in [0, side) and a linear
\* index in [0, side*side); i - 1, j - 1 and side - 1 are evaluated only
\* when they do not go below zero. (generate writes the side*side cells by
\* collecting over 0..n*n and indexes nothing.) The sweep on record ends on
\* the same cells as the sweep of the actions.
C17_AccessesInBounds ==
    pc = "loop" =>
        /\ DOMAIN current = 0 .. side * side - 1
        /\ DOMAIN initial = 0 .. side * side - 1
        /\ LET log == SweepLog(current, side) IN
               /\ \A rc \in log.reads :
                      /\ rc[1] \in 0 .. side - 1
                      /\ rc[2] \in 0 .. side - 1
                      /\ rc[1] * side + rc[2] \in 0 .. side * side - 1
               /\ \A ab \in log.subs : ab[1] >= ab[2]
               /\ log.cells = sweep(current, side).cells

\* A sweep is about to visit Tree cells in the two bottom corners of the
\* largest lattice and a Tree cell of column 0 below a Burning cell.
C17_Witness ==
    /\ pc = "loop"
    /\ side = MaxSide
    /\ side * side - 1 \in TreeSet
    /\ side * (side - 1) \in TreeSet
    /\ side \in TreeSet
    /\ 0 \in BurningSet

\* ------------------------------------------------------------------ C12

RECURSIVE InPlaceAfter(_, _, _)
InPlaceAfter(cells, n, k) ==
    IF k = 0
    THEN cells
    ELSE Only({sweep(c, n).cells : c \in {InPlaceAfter(cells, n, k - 1)}})

\* Sum of the expected counts of the closures of point px that have returned
RECURSIVE ExpectedSum(_, _)
ExpectedSum(px, k) ==
    IF k = 0
    THEN 0
    ELSE ExpectedSum(px, k - 1)
         + (IF tasks[<<px, k - 1>>].pc = "done" THEN tasks[<<px, k - 1>>].expected ELSE 0)

\* C14: every trial closure generates and sweeps its own lattice and no
\* closure touches the lattice of another: a step changes the record of one
\* closure at most, and the lattice of a closure in progress is its own
\* generated lattice after its own number of sweeps. Hence, for fixed draws,
\* the sweep count a closure returns is the count of a sequential run on its
\* generated lattice, and the sum of a probability point is the sum of these
\* counts, under every interleaving.
C14_TrialsIndependent ==
    /\ [](mpc # "off" =>
            /\ \A t \in DOMAIN tasks :
                   tasks[t].pc = "loop" =>
                       /\ tasks[t].lattice =
                              InPlaceAfter(tasks[t].generated, dn, tasks[t].sweeps)
                       /\ tasks[t].expected = TrialCount(tasks[t].generated, dn)
                       /\ tasks[t].sweeps <= tasks[t].expected
            /\ \A px \in DOMAIN psum :
                   /\ psum[px] = ExpectedSum(px, DriverSample)
                   /\ pdone[px] =
                          Cardinality({t \in DOMAIN tasks : t[1] = px /\ tasks[t].pc = "done"}))
    /\ [][\A t \in DOMAIN tasks : \A u \in DOMAIN tasks :
              (t # u /\ tasks'[t] # tasks[t]) => tasks'[u] = tasks[u]]_vars

\* Two closures of different probability points are in progress, each after
\* a sweep of its own, while a point already has a positive sum.
C14_Witness ==
    /\ mpc = "run"
    /\ \E t \in Running : \E u \in Running :
           /\ t[1] # u[1]
           /\ tasks[t].sweeps >= 1
           /\ tasks[u].sweeps >= 1
           /\ tasks[t].lattice # tasks[u].lattice
    /\ \E px \in DOMAIN psum : psum[px] > 0

====
